---- MODULE Spec2Model ----
(***************************************************************************)
(* Marketplace Installer: dependency provisioning, the shared setup        *)
(* promise, the command-palette install command, the panel's install       *)
(* message and installExtension, as one state machine (Spec, SpecDirect);  *)
(* the sidebar panel's script, the provider's searchMarketplace and the    *)
(* messages between them (SpecPanel, SpecSearch); the command's input box  *)
(* with its validateInput (SpecBox).                                       *)
(*                                                                         *)
(* The repository holds three versions of the extension host code:         *)
(*   "extension.js"  src/extension.js + src/MarketplaceViewProvider.js     *)
(*   "part_000"      src/unnamed/part_000 (command only, retry on failure) *)
(*   "part_001"      src/unnamed/part_001 (tool installed from local src)  *)
(* The variable `variant` fixes which one a behaviour runs.                *)
(*                                                                         *)
(* A promise continuation (the code after an `await`, a .catch callback)   *)
(* runs as a microtask of the step that settles the promise, so a step     *)
(* that settles a provisioning attempt also resumes everything awaiting it.*)
(***************************************************************************)
EXTENDS Integers, Sequences, FiniteSets, Bags, TLC

\* Most handler invocations (command, panel click, direct call) pending at once.
MaxTasks == 2

Variants == {"extension.js", "part_000", "part_001"}
Platforms == {"win32", "linux"}

\* ---------------------------------------------------------------- values

\* A JavaScript value that is either undefined or a string (a sequence).
Undefined == [defined |-> FALSE, val |-> <<>>]
Str(s) == [defined |-> TRUE, val |-> s]
\* !x is false exactly for a non-empty string
Truthy(x) == x.defined /\ x.val # <<>>

\* ---------------------------------------------------------------- paths

StoragePath == <<"globalStorage">>
join(a, b) == a \o b

getPythonCommand(plat, venvPath) ==
    IF plat = "win32" THEN join(venvPath, <<"Scripts", "python.exe">>)
                      ELSE join(venvPath, <<"bin", "python">>)

getInstallerCommand(plat, venvPath) ==
    IF plat = "win32" THEN join(venvPath, <<"Scripts", "vsix-to-vscodium.exe">>)
                      ELSE join(venvPath, <<"bin", "vsix-to-vscodium">>)

venvPathOf(storagePath) == join(storagePath, <<".venv">>)
installerPathOf(plat, storagePath) == getInstallerCommand(plat, venvPathOf(storagePath))

\* ---------------------------------------------------------------- subprocesses

\* What a subprocess ends with: its exit code and whether it wrote to stderr.
Exits == [code : {0, 1}, stderr : BOOLEAN]
NoExit == [code |-> -1, stderr |-> FALSE]

\* Fault injection: diagnostic output counts as a failure.
execPromise_stderrFails(exit) ==
    [ok |-> exit.code = 0 /\ ~exit.stderr, stderr |-> exit.stderr]

\* exec's callback gets an error exactly on a non-zero exit; the promise then
\* rejects, otherwise it resolves with {stdout, stderr}.
execPromise(exit) ==
    [ok |-> exit.code = 0, stderr |-> exit.stderr]

\* ---------------------------------------------------------------- identifiers

Lower == {"a","b","c","d","e","f","g","h","i","j","k","l","m",
          "n","o","p","q","r","s","t","u","v","w","x","y","z"}
Upper == {"A","B","C","D","E","F","G","H","I","J","K","L","M",
          "N","O","P","Q","R","S","T","U","V","W","X","Y","Z"}
Digits == {"0","1","2","3","4","5","6","7","8","9"}

\* Fault injection: the class is \\w-like, the underscore is let through.
IdChar_withUnderscore(c) == c \in Lower \cup Upper \cup Digits \cup {"-", "_"}

\* [a-z0-9-] under the i flag
IdChar(c) == c \in Lower \cup Upper \cup Digits \cup {"-"}

\* The matcher's positions in /^[a-z0-9-]+\.[a-z0-9-]+$/i :
\*   "start" at ^, "first" inside the first +, "dot" after \., "second"
\*   inside the second + (where $ may match), "fail" when no move exists.
regexStep(q, c) ==
    CASE q \in {"start", "first"} /\ IdChar(c) -> "first"
      [] q = "first" /\ c = "."                 -> "dot"
      [] q \in {"dot", "second"} /\ IdChar(c)  -> "second"
      [] OTHER                                 -> "fail"

RECURSIVE regexRun(_, _)
regexRun(q, text) ==
    IF text = <<>> THEN q ELSE regexRun(regexStep(q, Head(text)), Tail(text))

\* /^[a-z0-9-]+\.[a-z0-9-]+$/i.test(text)
PatternTest(text) == regexRun("start", text) = "second"

\* validateInput: null (accepted) or a message (the box refuses the text)
validateInput(text) == IF PatternTest(text) THEN "null" ELSE "Invalid format"

MsPythonPython == <<"m","s","-","p","y","t","h","o","n",".","p","y","t","h","o","n">>
MsUnderscore == <<"m","s","_","p","y","t","h","o","n",".","p","y","t","h","o","n">>
MsPython == <<"m","s","-","p","y","t","h","o","n">>

\* What vscode.extensions.all may hold (the ids of the installed extensions).
TamasfeToml == <<"T","a","m","a","s","f","e",".","t","o","m","l">>
InstalledSets == {<<>>, <<MsPythonPython>>, <<MsPythonPython, TamasfeToml>>}

\* Texts a user may type into the input box.
ManualInputs == {<<>>, MsPythonPython, MsUnderscore}
\* Identifiers of rendered result items (publisher.name).
ResultIds == {MsPythonPython}

\* ---------------------------------------------------------------- state

VARIABLES
    variant,                 \* which version of the host code runs
    platform,                \* process.platform
    storageExists,           \* the global storage directory exists on disk
    binaryExists,            \* the installer binary exists at installerPath
    sourceExists,            \* python_src/vsix-to-vscodium exists (part_001)
    activated,               \* activate() has run in this extension host
    attempts,                \* the ensureDependencies runs of this host, in call order
    dependencySetupPromise,  \* index into attempts; 0 is null / not yet set
    installerCmdPromise,     \* the provider's _installerCmdPromise (index, 0 none)
    view,                    \* the provider's _view is set
    webviewViewReference,    \* part_001's module-level _webviewViewReference is set
    tasks,                   \* the pending handler invocations (a bag)
    finished,                \* the invocations the last step completed
    returnedPaths,           \* every path an ensureDependencies run has resolved with
    callHistory,             \* how the last two ensureDependencies calls began
    boxText,                 \* the text in the command's input box (part_000)
    boxVerdict,              \* what validateInput returned for it
    installedExtensions,     \* vscode.extensions.all, as the ids of the installed extensions
    toHost,                  \* messages the panel has posted, not yet handled by the host
    searches,                \* the searchMarketplace calls awaiting their HTTP response (a bag)
    searched,                \* the searchMarketplace calls the last step completed
    toPanel,                 \* messages the host has posted, not yet received by the panel
    display,                 \* what the panel's results container shows
    latest,                  \* the query of the search the provider started last
    entered                  \* the search input's value, when the last step submitted it

vars == <<variant, platform, storageExists, binaryExists, sourceExists, activated,
          attempts, dependencySetupPromise, installerCmdPromise, view,
          webviewViewReference, tasks, finished, returnedPaths, callHistory,
          boxText, boxVerdict, installedExtensions, toHost, searches, searched,
          toPanel, display, latest, entered>>

\* what no step of the host changes
host == <<variant, platform, sourceExists>>
\* the input box while the user edits it
box == <<boxText, boxVerdict>>
\* what the user sees and edits, outside the extension host's handlers
\* the panel, the provider's searches and the messages between them
panel == <<installedExtensions, toHost, searches, searched, toPanel, display, latest,
           entered>>
ui == <<box, panel>>
\* the extension host's own state
installer == <<variant, platform, storageExists, binaryExists, sourceExists,
               activated, attempts, dependencySetupPromise, installerCmdPromise,
               view, webviewViewReference, tasks, finished, returnedPaths,
               callHistory>>

Null == 0

Has(log, e) == \E k \in 1..Len(log) : log[k] = e
Count(log, e) == Cardinality({k \in 1..Len(log) : log[k] = e})

\* ---------------------------------------------------------------- provisioning

Settled(a) == a.pc \in {"resolved", "rejected"}
InFlight(a) == ~Settled(a)

\* Fault injection: the existence check is skipped, setup always runs.
ensureDependencies_noCheck(v, plat, binExists, srcExists) ==
    [pc |-> "python3", python |-> "", value |-> Undefined, cached |-> binExists,
     log |-> <<"withProgress", "spawn:python3">>]

\* ensureDependencies up to its first await: the run it leaves behind.
ensureDependencies(v, plat, binExists, srcExists) ==
    IF binExists
    THEN [pc |-> "resolved", python |-> "",
          value |-> Str(installerPathOf(plat, StoragePath)), cached |-> TRUE,
          log |-> <<>>]
    ELSE IF v = "part_001" /\ ~srcExists
    THEN [pc |-> "rejected", python |-> "", value |-> Undefined, cached |-> FALSE,
          log |-> <<"showError:sourceMissing">>]
    ELSE [pc |-> "python3", python |-> "", value |-> Undefined, cached |-> FALSE,
          log |-> <<"withProgress", "spawn:python3">>]

\* the catch block of the withProgress task: show the error, re-throw
setupFailed(a, why) ==
    [a EXCEPT !.pc = "rejected", !.log = @ \o <<why, "showError:setup">>]

\* after findPython returned cmd: report, then create the virtual environment
createVenv(a, cmd) ==
    [a EXCEPT !.pc = "venv", !.python = cmd,
              !.log = @ \o <<"report:venv", "spawn:venv">>]

\* Fault injection: no fallback to the secondary candidate.
findPython_noFallback(a, exit) ==
    IF execPromise(exit).ok
    THEN createVenv([a EXCEPT !.log = Append(@, "ok:" \o a.pc)], a.pc)
    ELSE setupFailed([a EXCEPT !.log = Append(@, "fail:" \o a.pc)], "throw:notFound")

\* findPython resumed by the exit of the probe it awaits (a.pc names the probe)
findPython(a, exit) ==
    IF execPromise(exit).ok
    THEN createVenv([a EXCEPT !.log = Append(@, "ok:" \o a.pc)], a.pc)
    ELSE IF a.pc = "python3"
    THEN [a EXCEPT !.pc = "python", !.log = @ \o <<"fail:python3", "spawn:python">>]
    ELSE setupFailed([a EXCEPT !.log = Append(@, "fail:python")], "throw:notFound")

\* Fault injection: the install step runs although environment creation failed.
venvDone_ignoresFailure(a, exit) ==
    [a EXCEPT !.pc = "pip",
              !.log = @ \o <<IF execPromise(exit).ok THEN "ok:venv" ELSE "fail:venv",
                             "report:pip", "spawn:pip">>]

\* ensureDependencies resumed by the exit of `<python> -m venv`
venvDone(a, exit) ==
    IF execPromise(exit).ok
    THEN [a EXCEPT !.pc = "pip", !.log = @ \o <<"ok:venv", "report:pip", "spawn:pip">>]
    ELSE setupFailed([a EXCEPT !.log = Append(@, "fail:venv")], "throw:exec")

\* ensureDependencies resumed by the exit of `pip install`
pipDone(a, plat, exit) ==
    IF execPromise(exit).ok
    THEN [a EXCEPT !.pc = "resolved",
                   !.value = Str(installerPathOf(plat, StoragePath)),
                   !.log = @ \o <<"ok:pip", "showInfo:setupComplete">>]
    ELSE setupFailed([a EXCEPT !.log = Append(@, "fail:pip")], "throw:exec")

\* Fault injection: the reset runs on every settlement (.finally instead of .catch).
catchInitial_finally(v, i, a, p) ==
    IF v = "part_000" /\ i = 1 /\ Settled(a) THEN Null ELSE p

\* part_000: dependencySetupPromise.catch(() => dependencySetupPromise = null),
\* attached to the promise of the first run only.
catchInitial(v, i, a, p) ==
    IF v = "part_000" /\ i = 1 /\ a.pc = "rejected" THEN Null ELSE p

\* Fault injection: every command invocation runs the setup again.
startsSetup_always(v, p) == v = "part_000"

\* part_000's command handler: if (!dependencySetupPromise) ensureDependencies(...)
startsSetup(v, p) == v = "part_000" /\ p = Null

\* ---------------------------------------------------------------- install

\* the most recent ensureDependencies run of this host has failed
LastFailed == attempts # <<>> /\ attempts[Len(attempts)].pc = "rejected"

\* the run behind promise p is still under way (state at the handler's entry)
StillSettingUp(p) == p \in 1..Len(attempts) /\ InFlight(attempts[p])

NewTask(origin, p, id, failedBefore) ==
    [origin |-> origin, pc |-> "awaitSetup", promise |-> p, id |-> id,
     cmd |-> Undefined, exit |-> NoExit, afterFailure |-> failedBefore,
     lastFailed |-> (origin = "command" /\ LastFailed),
     waited |-> (origin = "panel" /\ StillSettingUp(p)), log |-> <<>>]

Pending(t) == t.pc # "done"

\* Fault injection: the precondition check is gone.
installExtension_noCheck(t, extensionId, installerCmd) ==
    [t EXCEPT !.pc = "installing", !.id = extensionId, !.cmd = installerCmd,
              !.log = @ \o <<"installExtension", "withProgress", "spawn:installer">>]

\* installExtension up to its first await (the exit of the installer)
installExtension(t, extensionId, installerCmd) ==
    IF ~Truthy(extensionId) \/ ~Truthy(installerCmd)
    THEN [t EXCEPT !.pc = "done", !.id = extensionId, !.cmd = installerCmd,
                   !.log = @ \o <<"installExtension", "showError:precondition">>]
    ELSE [t EXCEPT !.pc = "installing", !.id = extensionId, !.cmd = installerCmd,
                   !.log = @ \o <<"installExtension", "withProgress", "spawn:installer">>]

\* the install task resumed by the exit of `"<installerCmd>" <extensionId>`
installDone(v, t, exit, ref) ==
    IF execPromise(exit).ok
    THEN [t EXCEPT !.pc = "offered", !.exit = exit,
                   !.log = @ \o <<"showInfo:success+ReloadWindow">>
                             \o (IF v = "part_001" /\ ref
                                 THEN <<"post:installationComplete">> ELSE <<>>)]
    ELSE [t EXCEPT !.pc = "done", !.exit = exit,
                   !.log = Append(@, "showError:install")]

\* the command handler after `await dependencySetupPromise`
commandResumed(t, a) ==
    IF a.pc = "resolved"
    THEN [t EXCEPT !.pc = "inputBox", !.cmd = a.value]
    ELSE [t EXCEPT !.pc = "done", !.log = Append(@, "showError:couldNotRun")]

\* the provider's `install` case after `await this._installerCmdPromise`
panelResumed(t, a) ==
    IF a.pc = "resolved"
    THEN IF ~Truthy(a.value)
         THEN [t EXCEPT !.pc = "done", !.log = Append(@, "showError:notReady")]
         ELSE installExtension(t, t.id, a.value)
    ELSE [t EXCEPT !.pc = "done", !.log = Append(@, "unhandledRejection")]

\* Fault injection: the panel's handler does not await the setup and runs the
\* installer with the path the setup is going to produce.
Advance_panelDoesNotWait(t, i, a) ==
    IF t.pc = "awaitSetup" /\ t.promise = i
    THEN IF t.origin = "panel"
         THEN installExtension(t, t.id, Str(installerPathOf(platform, StoragePath)))
         ELSE IF Settled(a) THEN commandResumed(t, a) ELSE t
    ELSE t

\* a handler awaiting run i continues as soon as run i (now a) is settled
Advance(t, i, a) ==
    IF t.pc = "awaitSetup" /\ t.promise = i /\ Settled(a)
    THEN IF t.origin = "command" THEN commandResumed(t, a) ELSE panelResumed(t, a)
    ELSE t

\* What showInputBox can return: undefined (dismissed) or the text typed; with
\* validateInput (part_000) a text is returned only if validateInput gave null.
acceptedInputs(v) ==
    {Undefined} \cup
    {Str(s) : s \in {x \in ManualInputs : v = "part_000" => validateInput(x) = "null"}}

\* ---------------------------------------------------------------- actions

\* the query of no search
NoSearch == <<>>

\* the results container as the page is loaded
Idle == [kind |-> "idle", text |-> "Enter a search term to find extensions.",
         items |-> <<>>, for |-> NoSearch]

\* the state before activate, with the given extensions installed
Start(installed) ==
    /\ variant \in Variants
    /\ platform \in Platforms
    /\ storageExists \in BOOLEAN
    /\ binaryExists \in (IF storageExists THEN BOOLEAN ELSE {FALSE})
    /\ sourceExists \in (IF variant = "part_001" THEN BOOLEAN ELSE {TRUE})
    /\ activated = FALSE
    /\ attempts = <<>>
    /\ dependencySetupPromise = Null
    /\ installerCmdPromise = Null
    /\ view = FALSE
    /\ webviewViewReference = FALSE
    /\ tasks = EmptyBag
    /\ finished = {}
    /\ returnedPaths = {}
    /\ callHistory = <<>>
    /\ boxText = <<>>
    /\ boxVerdict = "unchecked"
    /\ installedExtensions = installed
    /\ toHost = <<>>
    /\ searches = EmptyBag
    /\ searched = {}
    /\ toPanel = <<>>
    /\ display = Idle
    /\ latest = NoSearch
    /\ entered = Undefined

\* nothing but this extension is installed
Init == Start(<<>>)

\* the call is recorded by how it began; only the last two calls are kept
Called(h, binExists) ==
    LET all == Append(h, IF binExists THEN "cached" ELSE "setup")
    IN IF Len(all) > 2 THEN Tail(all) ELSE all

\* the run started at activation has failed and no other run was started since
InitialFailed == Len(attempts) = 1 /\ attempts[1].pc = "rejected"

Returned(a) == IF a.pc = "resolved" THEN {a.value.val} ELSE {}

One(t) == SetToBag({t})

RECURSIVE Copies(_, _)
\* how many invocations of bag b lie in the set S
Copies(b, S) ==
    IF S = {} THEN 0
    ELSE LET t == CHOOSE x \in S : TRUE IN b[t] + Copies(b, S \ {t})

\* Run i becomes a; the handlers awaiting it continue in the same step.
Provision(i, a) ==
    /\ attempts' = [attempts EXCEPT ![i] = a]
    /\ dependencySetupPromise' = catchInitial(variant, i, a, dependencySetupPromise)
    /\ returnedPaths' = returnedPaths \cup Returned(a)
    /\ LET old == BagToSet(tasks)
           moved == {Advance(t, i, a) : t \in old}
           left == {u \in moved : Pending(u)}
       IN /\ tasks' = [u \in left |-> Copies(tasks, {t \in old : Advance(t, i, a) = u})]
          /\ finished' = moved \ left
    /\ UNCHANGED <<host, storageExists, activated, installerCmdPromise, view,
                   webviewViewReference, callHistory>>

\* A new handler invocation t enters: kept while pending, else reported finished.
Enter(t) ==
    /\ tasks' = IF Pending(t) THEN tasks (+) One(t) ELSE tasks
    /\ finished' = IF Pending(t) THEN {} ELSE {t}

\* The pending invocation t becomes u.
Move(t, u) ==
    /\ tasks' = IF Pending(u) THEN (tasks (-) One(t)) (+) One(u) ELSE tasks (-) One(t)
    /\ finished' = IF Pending(u) THEN {} ELSE {u}

activate ==
    /\ ~activated
    /\ activated' = TRUE
    /\ storageExists' = TRUE
    /\ LET a == ensureDependencies(variant, platform, binaryExists, sourceExists) IN
         /\ attempts' = <<a>>
         /\ dependencySetupPromise' = 1
         /\ returnedPaths' = returnedPaths \cup Returned(a)
         /\ callHistory' = Called(callHistory, binaryExists)
    /\ installerCmdPromise' = IF variant = "part_000" THEN Null ELSE 1
    /\ finished' = {}
    /\ UNCHANGED <<host, binaryExists, view, webviewViewReference, tasks>>

\* part_001 registers a callback with provider.onDidResolveWebviewView that
\* stores the resolved view; the provider hands it the view when it is created.
onDidResolveWebviewView(v) == v = "part_001"

\* VS Code opens the sidebar view: resolveWebviewView
resolveWebviewView ==
    /\ activated
    /\ variant # "part_000"
    /\ ~view
    /\ view' = TRUE
    /\ webviewViewReference' = onDidResolveWebviewView(variant)
    /\ finished' = {}
    /\ UNCHANGED <<host, storageExists, binaryExists, activated, attempts,
                   dependencySetupPromise, installerCmdPromise, tasks, returnedPaths,
                   callHistory>>

Python3Exit(i, exit) ==
    /\ attempts[i].pc = "python3"
    /\ Provision(i, findPython(attempts[i], exit))
    /\ UNCHANGED binaryExists

PythonExit(i, exit) ==
    /\ attempts[i].pc = "python"
    /\ Provision(i, findPython(attempts[i], exit))
    /\ UNCHANGED binaryExists

VenvExit(i, exit) ==
    /\ attempts[i].pc = "venv"
    /\ Provision(i, venvDone(attempts[i], exit))
    /\ UNCHANGED binaryExists

PipExit(i, exit) ==
    /\ attempts[i].pc = "pip"
    /\ Provision(i, pipDone(attempts[i], platform, exit))
    /\ binaryExists' = (binaryExists \/ execPromise(exit).ok)

\* the command-palette command (installFromInput / installExtension) is invoked
InvokeCommand ==
    /\ activated
    /\ BagCardinality(tasks) < MaxTasks
    /\ LET retry == startsSetup(variant, dependencySetupPromise)
           run == ensureDependencies(variant, platform, binaryExists, sourceExists)
           atts == IF retry THEN Append(attempts, run) ELSE attempts
           p == IF retry THEN Len(atts) ELSE dependencySetupPromise
           t0 == NewTask("command", p, Undefined, InitialFailed)
           t1 == IF retry THEN [t0 EXCEPT !.log = <<"ensureDependencies">>] ELSE t0
       IN /\ attempts' = atts
          /\ dependencySetupPromise' = p
          /\ returnedPaths' = returnedPaths \cup (IF retry THEN Returned(run) ELSE {})
          /\ callHistory' = IF retry THEN Called(callHistory, binaryExists)
                                     ELSE callHistory
          /\ Enter(Advance(t1, p, atts[p]))
    /\ UNCHANGED <<host, storageExists, binaryExists, activated, installerCmdPromise,
                   view, webviewViewReference>>

\* showInputBox returns
InputBox(t, text) ==
    /\ t.pc = "inputBox"
    /\ text \in acceptedInputs(variant)
    /\ Move(t, IF variant = "part_000"
               THEN IF ~Truthy(text)
                    THEN [t EXCEPT !.pc = "done", !.id = text,
                                   !.log = Append(@, "showInfo:cancelled")]
                    ELSE [t EXCEPT !.pc = "installing", !.id = text,
                                   !.log = @ \o <<"withProgress", "spawn:installer">>]
               ELSE IF Truthy(text)
                    THEN installExtension(t, text, t.cmd)
                    ELSE [t EXCEPT !.pc = "done", !.id = text])
    /\ UNCHANGED <<host, storageExists, binaryExists, activated, attempts,
                   dependencySetupPromise, installerCmdPromise, view,
                   webviewViewReference, returnedPaths, callHistory>>

\* the panel posts {type: 'install', value: id}
PanelInstall(id) ==
    /\ view
    /\ BagCardinality(tasks) < MaxTasks
    /\ LET p == installerCmdPromise
           t0 == NewTask("panel", p, Str(id), InitialFailed)
       IN Enter(Advance(t0, p, attempts[p]))
    /\ UNCHANGED <<host, storageExists, binaryExists, activated, attempts,
                   dependencySetupPromise, installerCmdPromise, view,
                   webviewViewReference, returnedPaths, callHistory>>

\* the exported installExtension called by another module
DirectInstall(id, cmd) ==
    /\ activated
    /\ variant # "part_000"
    /\ BagCardinality(tasks) < MaxTasks
    /\ Enter(installExtension(NewTask("direct", Null, Undefined, FALSE), id, cmd))
    /\ UNCHANGED <<host, storageExists, binaryExists, activated, attempts,
                   dependencySetupPromise, installerCmdPromise, view,
                   webviewViewReference, returnedPaths, callHistory>>

\* the installer subprocess exits
InstallExit(t, exit) ==
    /\ t.pc = "installing"
    /\ Move(t, installDone(variant, t, exit, webviewViewReference))
    /\ UNCHANGED <<host, storageExists, binaryExists, activated, attempts,
                   dependencySetupPromise, installerCmdPromise, view,
                   webviewViewReference, returnedPaths, callHistory>>

\* What the success notification resolves with: the button's label, or
\* undefined when the notification is dismissed.
Selections == {"Reload Window", "undefined"}

\* Fault injection: the window is reloaded whatever the notification resolves with.
selected_alwaysReloads(t, selection) ==
    [t EXCEPT !.pc = "done",
              !.log = @ \o <<"selected:" \o selection, "reloadWindow">>]

\* .then(selection => { if (selection === 'Reload Window') executeCommand(...) })
selected(t, selection) ==
    [t EXCEPT !.pc = "done",
              !.log = @ \o <<"selected:" \o selection>>
                        \o (IF selection = "Reload Window"
                            THEN <<"reloadWindow">> ELSE <<>>)]

\* the success notification resolves; workbench.action.reloadWindow, when
\* executed, restarts the extension host
Selection(t, selection) ==
    /\ t.pc = "offered"
    /\ IF Has(selected(t, selection).log, "reloadWindow")
       THEN /\ finished' = {selected(t, selection)}
            /\ tasks' = EmptyBag
            /\ activated' = FALSE
            /\ attempts' = <<>>
            /\ dependencySetupPromise' = Null
            /\ installerCmdPromise' = Null
            /\ view' = FALSE
            /\ webviewViewReference' = FALSE
       ELSE /\ Move(t, selected(t, selection))
            /\ UNCHANGED <<activated, attempts, dependencySetupPromise,
                           installerCmdPromise, view, webviewViewReference>>
    /\ UNCHANGED <<host, storageExists, binaryExists, returnedPaths, callHistory>>

\* the user dismisses the success notification
Dismiss(t) == Selection(t, "undefined")

\* the user selects 'Reload Window'
ReloadWindow(t) == Selection(t, "Reload Window")

\* arguments another module may pass to installExtension
DirectIds == {Undefined, Str(<<>>), Str(MsPythonPython)}
DirectCmds == {Undefined, Str(<<>>), Str(installerPathOf(platform, StoragePath))}

Next ==
    \/ activate /\ UNCHANGED ui
    \/ resolveWebviewView /\ UNCHANGED ui
    \/ \E i \in 1..Len(attempts), exit \in Exits : Python3Exit(i, exit) /\ UNCHANGED ui
    \/ \E i \in 1..Len(attempts), exit \in Exits : PythonExit(i, exit) /\ UNCHANGED ui
    \/ \E i \in 1..Len(attempts), exit \in Exits : VenvExit(i, exit) /\ UNCHANGED ui
    \/ \E i \in 1..Len(attempts), exit \in Exits : PipExit(i, exit) /\ UNCHANGED ui
    \/ InvokeCommand /\ UNCHANGED ui
    \/ \E t \in BagToSet(tasks), text \in acceptedInputs(variant) :
            InputBox(t, text) /\ UNCHANGED ui
    \/ \E id \in ResultIds : PanelInstall(id) /\ UNCHANGED ui
    \/ \E t \in BagToSet(tasks), exit \in Exits : InstallExit(t, exit) /\ UNCHANGED ui
    \/ \E t \in BagToSet(tasks) : Dismiss(t) /\ UNCHANGED ui
    \/ \E t \in BagToSet(tasks) : ReloadWindow(t) /\ UNCHANGED ui

\* the extension as VS Code runs it
Spec == Init /\ [][Next]_vars

NextDirect ==
    \/ Next
    \/ \E id \in DirectIds, cmd \in DirectCmds : DirectInstall(id, cmd) /\ UNCHANGED ui

\* the extension, with installExtension also called through the module's exports
SpecDirect == Init /\ [][NextDirect]_vars

\* ---------------------------------------------------------------- the input box

\* Longest text the user types key by key.
MaxTextLen == 3
\* Keys the user presses: a letter of each case, a digit, the hyphen, the
\* dot, and two characters outside the classes.
TypedChars == {"a", "Z", "7", "-", ".", "_", " "}
\* Texts the user pastes whole.
PastedTexts == {MsPythonPython, MsPython, MsUnderscore}

\* the user types a character; the box validates the new text
Type(c) ==
    /\ Len(boxText) < MaxTextLen
    /\ boxText' = Append(boxText, c)
    /\ boxVerdict' = validateInput(boxText')
    /\ UNCHANGED <<installer, panel>>

\* the user replaces the text by a pasted one; the box validates it
Paste(text) ==
    /\ boxText' = text
    /\ boxVerdict' = validateInput(text)
    /\ UNCHANGED <<installer, panel>>

\* part_000's command has reached showInputBox
InitBox ==
    /\ Init
    /\ variant = "part_000"
    /\ platform = "linux"
    /\ storageExists
    /\ binaryExists

NextBox ==
    \/ \E c \in TypedChars : Type(c)
    \/ \E text \in PastedTexts : Paste(text)

\* the input box of part_000's command while the user edits the text
SpecBox == InitBox /\ [][NextBox]_vars

\* ---------------------------------------------------------------- marketplace values

UpperSeq == <<"A","B","C","D","E","F","G","H","I","J","K","L","M",
              "N","O","P","Q","R","S","T","U","V","W","X","Y","Z">>
LowerSeq == <<"a","b","c","d","e","f","g","h","i","j","k","l","m",
              "n","o","p","q","r","s","t","u","v","w","x","y","z">>

\* Fault injection: the text is compared as it is written.
toLowerCase_asWritten(text) == text

\* String.prototype.toLowerCase on the characters identifiers are made of
toLowerCase(text) ==
    [k \in 1..Len(text) |->
        IF \E i \in 1..Len(UpperSeq) : UpperSeq[i] = text[k]
        THEN LowerSeq[CHOOSE i \in 1..Len(UpperSeq) : UpperSeq[i] = text[k]]
        ELSE text[k]]

WhiteSpace == {" ", "\t", "\n"}

RECURSIVE trimStart(_)
trimStart(text) ==
    IF text # <<>> /\ Head(text) \in WhiteSpace THEN trimStart(Tail(text)) ELSE text

RECURSIVE trimEnd(_)
trimEnd(text) ==
    IF text # <<>> /\ text[Len(text)] \in WhiteSpace
    THEN trimEnd(SubSeq(text, 1, Len(text) - 1)) ELSE text

\* Fault injection: the input's value is taken untrimmed.
trim_keepsSpaces(text) == text

\* String.prototype.trim
trim(text) == trimEnd(trimStart(text))

IconDefault == "Microsoft.VisualStudio.Services.Icons.Default"
Details == "Microsoft.VisualStudio.Services.Content.Details"

\* files of a version entry: absent, or a list of assets
NoFiles == [defined |-> FALSE, list |-> <<>>]
Files(list) == [defined |-> TRUE, list |-> list]

\* Entries of response.data.results[0].extensions.
RawPython ==
    [displayName |-> "Python",
     publisher |-> [displayName |-> "Microsoft",
                    publisherName |-> <<"M","S","-","P","y","t","h","o","n">>],
     extensionName |-> <<"P","y","t","h","o","n">>,
     shortDescription |-> "Python language support",
     versions |-> <<[files |-> Files(<<[assetType |-> Details, source |-> "python/README.md"],
                                       [assetType |-> IconDefault, source |-> "python/icon.png"],
                                       [assetType |-> IconDefault, source |-> "python/icon2.png"]>>)]>>]
RawGo ==
    [displayName |-> "Go",
     publisher |-> [displayName |-> "Go Team", publisherName |-> <<"g","o","l","a","n","g">>],
     extensionName |-> <<"g","o">>,
     shortDescription |-> "Go language support",
     versions |-> <<[files |-> Files(<<[assetType |-> Details, source |-> "go/README.md"]>>)]>>]
RawYaml ==
    [displayName |-> "YAML",
     publisher |-> [displayName |-> "Red Hat", publisherName |-> <<"r","e","d","h","a","t">>],
     extensionName |-> <<"y","a","m","l">>,
     shortDescription |-> "YAML language support",
     versions |-> <<[files |-> NoFiles]>>]
RawToml ==
    [displayName |-> "TOML",
     publisher |-> [displayName |-> "tamasfe", publisherName |-> <<"t","a","m","a","s","f","e">>],
     extensionName |-> <<"T","o","m","l">>,
     shortDescription |-> "TOML language support",
     versions |-> <<>>]

\* `${ext.publisher.publisherName}.${ext.extensionName}`
extensionIdOf(ext) == ext.publisher.publisherName \o <<".">> \o ext.extensionName

\* Fault injection: the first file is taken, whatever its asset type.
iconUrlOf_firstFile(ext) ==
    IF ext.versions = <<>> THEN ""
    ELSE IF ~ext.versions[1].files.defined THEN ""
    ELSE IF ext.versions[1].files.list = <<>> THEN ""
    ELSE ext.versions[1].files.list[1].source

\* ext.versions[0]?.files?.find(f => f.assetType === IconDefault)?.source || ''
iconUrlOf(ext) ==
    IF ext.versions = <<>> THEN ""
    ELSE IF ~ext.versions[1].files.defined THEN ""
    ELSE LET icons == SelectSeq(ext.versions[1].files.list,
                                LAMBDA f : f.assetType = IconDefault)
         IN IF icons = <<>> THEN "" ELSE icons[1].source

\* Array.prototype.includes
includes(list, x) == \E k \in 1..Len(list) : list[k] = x

\* vscode.extensions.all.map(ext => ext.id.toLowerCase())
installedLowerCased(installed) == [k \in 1..Len(installed) |-> toLowerCase(installed[k])]

\* the object one result is mapped to
formatExtension(ext, installed) ==
    [displayName |-> ext.displayName,
     publisherDisplayName |-> ext.publisher.displayName,
     shortDescription |-> ext.shortDescription,
     extensionId |-> extensionIdOf(ext),
     iconUrl |-> iconUrlOf(ext),
     isInstalled |-> includes(installedLowerCased(installed),
                              toLowerCase(extensionIdOf(ext)))]

\* Fault injection: installed extensions are left out of the list.
formatResults_dropsInstalled(results, installed) ==
    SelectSeq([k \in 1..Len(results) |-> formatExtension(results[k], installed)],
              LAMBDA e : ~e.isInstalled)

\* results.map(ext => ({...}))
formatResults(results, installed) ==
    [k \in 1..Len(results) |-> formatExtension(results[k], installed)]

\* ---------------------------------------------------------------- the panel and the search

\* Most messages and HTTP requests under way when the user acts again.
MaxInFlight == 2
\* Longest list of extensions a marketplace response carries.
MaxResults == 2

\* axios.post body: filters[0].pageNumber, filters[0].pageSize, flags
PageNumber == 1
PageSize == 50
Flags == 71

\* Values of the search input when the user submits it.
SearchInputs == {<<>>, <<" ">>, <<"p","y">>, <<" ","g","o"," ">>}

\* Extensions the marketplace may list in a response.
Catalogue == {RawPython, RawGo, RawYaml, RawToml}
RECURSIVE Lists(_, _)
Lists(S, n) ==
    IF n = 0 THEN {<<>>}
    ELSE Lists(S, n - 1) \cup {Append(l, x) : l \in Lists(S, n - 1), x \in S}

\* How the HTTP request ends. A 2xx response carrying a result list:
Found(S) ==
    {[kind |-> "ok", status |-> 200, results |-> l] : l \in Lists(S, MaxResults)}
\* a 2xx response carrying the given list, or no extension:
Listed(l) ==
    {[kind |-> "ok", status |-> 200, results |-> r] : r \in {<<>>, l}}
\* no response at all (the request was sent):
NoResponse == [kind |-> "noResponse", status |-> 0, results |-> <<>>]
\* or a 2xx response with a body of another shape, a response with an error
\* status, no response. (The URL, the body's shape and the headers are
\* fixed, so axios always gets as far as sending the request.)
Statuses == {400, 404, 500, 503}
Failures ==
    {[kind |-> "malformed", status |-> 200, results |-> <<>>]}
    \cup {[kind |-> "status", status |-> c, results |-> <<>>] : c \in Statuses}
    \cup {NoResponse}

\* messages on the two channels; `for` records the query of the search that
\* posted the message (the message itself does not carry it)
SearchMsg(q) == [type |-> "search", value |-> q]
InstallMsg(id) == [type |-> "install", value |-> id]
PanelMsg(type, value, q) == [type |-> type, value |-> value, for |-> q]

\* the catch block's choice of errorMessage
errorMessageOf(outcome) ==
    CASE outcome.kind = "status" /\ outcome.status = 404 ->
            "Marketplace API endpoint not found or changed. This extension may need an update."
      [] outcome.kind = "status" /\ outcome.status = 400 ->
            "Invalid search request. The marketplace API might have changed its expected parameters."
      [] outcome.kind = "status" /\ outcome.status = 500 ->
            "Internal server error from Marketplace API. Please try again later."
      [] outcome.kind = "noResponse" ->
            "Network error during search. Check your internet connection."
      [] OTHER ->
            "Search failed. Please check your internet connection or try a different search term."

\* a searchMarketplace call at its await: the request it has sent
NewSearch(q) ==
    [query |-> q, pc |-> "awaiting", requests |-> 1,
     request |-> [value |-> q, pageNumber |-> PageNumber, pageSize |-> PageSize,
                  flags |-> Flags],
     outcome |-> "none", status |-> 0, response |-> <<>>,
     log |-> <<"post:setLoading", "request">>]

\* Fault injection: a failed request is sent once more.
searchFailed_retries(c, outcome) ==
    IF c.requests < 2
    THEN [c EXCEPT !.requests = @ + 1, !.log = Append(@, "request")]
    ELSE [c EXCEPT !.pc = "done", !.outcome = outcome.kind, !.status = outcome.status,
                   !.log = @ \o <<"showError:search", "post:showError">>]

\* Fault injection: the catch block notifies but posts nothing to the panel.
searchFailed_silent(c, outcome) ==
    [c EXCEPT !.pc = "done", !.outcome = outcome.kind, !.status = outcome.status,
              !.log = Append(@, "showError:search")]

\* the catch block: a notification and a showError message, no further request
searchFailed(c, outcome) ==
    [c EXCEPT !.pc = "done", !.outcome = outcome.kind, !.status = outcome.status,
              !.log = @ \o <<"showError:search", "post:showError">>]

\* the call after its response: the list is mapped and posted
searchSucceeded(c, outcome) ==
    [c EXCEPT !.pc = "done", !.outcome = outcome.kind, !.status = outcome.status, !.response = outcome.results,
              !.log = @ \o <<"post:showResults">>]

\* the results container holding one paragraph
Shows(kind, text, q) == [kind |-> kind, text |-> text, items |-> <<>>, for |-> q]

\* one list item and its button
renderItem(v, ext) ==
    IF v = "part_001" /\ ext.isInstalled
    THEN [extensionId |-> ext.extensionId, isInstalled |-> ext.isInstalled,
          label |-> "Installed", disabled |-> TRUE, listener |-> FALSE]
    ELSE [extensionId |-> ext.extensionId, isInstalled |-> ext.isInstalled,
          label |-> "Install", disabled |-> FALSE, listener |-> TRUE]

renderResults(v, extensions, q) ==
    IF Len(extensions) = 0
    THEN Shows("empty", "No extensions found.", q)
    ELSE [kind |-> "results", text |-> "",
          items |-> [k \in 1..Len(extensions) |-> renderItem(v, extensions[k])],
          for |-> q]

MessageTypes == {"setLoading", "showResults", "showError", "showInfo"}

\* Fault injection: a result list does not replace a list already shown.
onMessage_keepsResults(v, shown, m) ==
    CASE m.type = "setLoading"  -> Shows("loading", "Loading...", m.for)
      [] m.type = "showResults" -> IF shown.kind = "results" THEN shown
                                   ELSE renderResults(v, m.value, m.for)
      [] m.type = "showError"   -> Shows("error", m.value, m.for)
      [] m.type = "showInfo"    -> Shows("info", m.value, m.for)
      [] OTHER                  -> shown

\* the panel's message listener
onMessage(v, shown, m) ==
    CASE m.type = "setLoading"  -> Shows("loading", "Loading...", m.for)
      [] m.type = "showResults" -> renderResults(v, m.value, m.for)
      [] m.type = "showError"   -> Shows("error", m.value, m.for)
      [] m.type = "showInfo"    -> Shows("info", m.value, m.for)
      [] OTHER                  -> shown

\* Fault injection: the panel shows the loading text as soon as it posts a search.
submitted_showsLoading(shown, query) ==
    IF query # <<>>
    THEN Shows("loading", "Loading...", query)
    ELSE Shows("info", "Please enter a search term.", NoSearch)

\* what performSearch leaves in the results container
submitted(shown, query) ==
    IF query # <<>>
    THEN shown
    ELSE Shows("info", "Please enter a search term.", NoSearch)

InFlightCount == Len(toHost) + BagCardinality(searches) + Len(toPanel)

\* the user clicks Search or presses Enter in the search input
performSearch(input) ==
    /\ view
    /\ InFlightCount < MaxInFlight
    /\ toHost' = IF trim(input) # <<>>
                 THEN Append(toHost, SearchMsg(trim(input)))
                 ELSE toHost
    /\ display' = submitted(display, trim(input))
    /\ entered' = Str(input)
    /\ searched' = {}
    /\ UNCHANGED <<installer, box, installedExtensions, searches, toPanel, latest>>

\* the user clicks the button of the k-th rendered item
clickInstall(k) ==
    /\ view
    /\ InFlightCount < MaxInFlight
    /\ k \in 1..Len(display.items)
    /\ display.items[k].listener
    /\ ~display.items[k].disabled
    /\ toHost' = Append(toHost, InstallMsg(display.items[k].extensionId))
    /\ searched' = {}
    /\ entered' = Undefined
    /\ UNCHANGED <<installer, box, installedExtensions, searches, toPanel, display,
                   latest>>

\* the provider receives a search message and runs searchMarketplace up to
\* its await
receiveSearch ==
    /\ toHost # <<>>
    /\ Head(toHost).type = "search"
    /\ toHost' = Tail(toHost)
    /\ IF ~view
       THEN UNCHANGED <<searches, toPanel, latest>>
       ELSE IF Head(toHost).value = <<>>
       THEN /\ toPanel' = Append(toPanel,
                    PanelMsg("showInfo", "Please enter a search term.", NoSearch))
            /\ UNCHANGED <<searches, latest>>
       ELSE /\ toPanel' = Append(toPanel,
                    PanelMsg("setLoading", <<>>, Head(toHost).value))
            /\ searches' = searches (+) One(NewSearch(Head(toHost).value))
            /\ latest' = Head(toHost).value
    /\ searched' = {}
    /\ entered' = Undefined
    /\ UNCHANGED <<installer, box, installedExtensions, display>>

\* the provider receives an install message; the handler it starts is
\* PanelInstall
receiveInstall ==
    /\ toHost # <<>>
    /\ Head(toHost).type = "install"
    /\ toHost' = Tail(toHost)
    /\ searched' = {}
    /\ entered' = Undefined
    /\ UNCHANGED <<installer, box, installedExtensions, searches, toPanel, display,
                   latest>>

\* the HTTP request of a searchMarketplace call ends and the call resumes
httpResponse(c, outcome) ==
    /\ c \in BagToSet(searches)
    /\ IF outcome.kind = "ok"
       THEN /\ searches' = searches (-) One(c)
            /\ searched' = {searchSucceeded(c, outcome)}
            /\ toPanel' = Append(toPanel,
                    PanelMsg("showResults",
                             formatResults(outcome.results, installedExtensions),
                             c.query))
       ELSE IF searchFailed(c, outcome).pc = "done"
       THEN /\ searches' = searches (-) One(c)
            /\ searched' = {searchFailed(c, outcome)}
            /\ toPanel' = Append(toPanel,
                    PanelMsg("showError", errorMessageOf(outcome),
                             c.query))
       ELSE /\ searches' = (searches (-) One(c)) (+) One(searchFailed(c, outcome))
            /\ searched' = {}
            /\ UNCHANGED toPanel
    /\ entered' = Undefined
    /\ UNCHANGED <<installer, box, installedExtensions, toHost, display, latest>>

\* the panel receives the next message of the host
receiveMessage ==
    /\ toPanel # <<>>
    /\ toPanel' = Tail(toPanel)
    /\ display' = onMessage(variant, display, Head(toPanel))
    /\ searched' = {}
    /\ entered' = Undefined
    /\ UNCHANGED <<installer, box, installedExtensions, toHost, searches, latest>>

\* the extension is activated, the view resolved and the page loaded
InitPanel ==
    /\ \E installed \in InstalledSets : Start(installed)
    /\ variant # "part_000"
    /\ platform = "linux"
    /\ storageExists
    /\ binaryExists
    /\ sourceExists

NextPanel ==
    \/ activate /\ UNCHANGED ui
    \/ resolveWebviewView /\ UNCHANGED ui
    \/ \E input \in SearchInputs : performSearch(input)
    \/ \E k \in 1..Len(display.items) : clickInstall(k)
    \/ receiveSearch
    \/ receiveInstall
    \/ \E c \in BagToSet(searches), outcome \in Listed(<<RawPython>>) \cup {NoResponse} :
            httpResponse(c, outcome)
    \/ receiveMessage

\* the panel, the provider and the marketplace, with searches overlapping
SpecPanel == InitPanel /\ [][NextPanel]_vars

NextSearch ==
    \/ activate /\ UNCHANGED ui
    \/ resolveWebviewView /\ UNCHANGED ui
    \/ \E input \in SearchInputs :
            performSearch(input) /\ InFlightCount = 0 /\ latest = NoSearch
    \/ \E k \in 1..Len(display.items) : clickInstall(k) /\ InFlightCount = 0
    \/ receiveSearch
    \/ receiveInstall
    \/ \E c \in BagToSet(searches), outcome \in Found(Catalogue) \cup Failures :
            httpResponse(c, outcome)
    \/ receiveMessage

\* the first search of a session, with every kind of response
SpecSearch == InitPanel /\ [][NextSearch]_vars

AllTasks == BagToSet(tasks) \cup finished

\* ---------------------------------------------------------------- claims

Runs == {attempts[i] : i \in 1..Len(attempts)}

\* every e2 in the log has an e1 somewhere before it
Before(log, e1, e2) ==
    \A j \in 1..Len(log) : log[j] = e2 => \E i \in 1..(j - 1) : log[i] = e1

ErrorSurfaces == {"showError:precondition", "showError:install",
                  "showError:couldNotRun", "showError:notReady", "post:showError"}
ShowsError(log) == \E k \in 1..Len(log) : log[k] \in ErrorSurfaces

\* C1: in extension.js, a command invocation that finds the run started at
\* activation failed (and no run started since) starts a fresh
\* ensureDependencies run.
C1_CommandRetriesAfterFailure ==
    \A t \in AllTasks :
        (variant = "extension.js" /\ t.origin = "command" /\ t.afterFailure) =>
            Has(t.log, "ensureDependencies")

\* C2: at most one ensureDependencies run is in flight, and every handler that
\* waits for setup waits for that run.
C2_SingleAttemptInFlight ==
    /\ Cardinality({i \in 1..Len(attempts) : InFlight(attempts[i])}) <= 1
    /\ \A t \in BagToSet(tasks) :
          t.pc = "awaitSetup" =>
              /\ t.promise \in 1..Len(attempts)
              /\ InFlight(attempts[t.promise])

\* two callers arrived while the run was pending and both wait for it
C2_Witness ==
    \E i \in 1..Len(attempts) :
        /\ InFlight(attempts[i])
        /\ Copies(tasks, {t \in BagToSet(tasks) :
                             t.pc = "awaitSetup" /\ t.promise = i}) >= 2

\* C3: an ensureDependencies call that finds the binary resolves with the
\* installer path under the storage root and has no effect at all (no probe, no
\* subprocess, no progress, no notification); every call returns the same path.
C3_BinaryPresentNoEffects ==
    /\ \A a \in Runs :
          a.cached =>
              /\ a.pc = "resolved"
              /\ a.value = Str(getInstallerCommand(platform, join(StoragePath, <<".venv">>)))
              /\ a.log = <<>>
    /\ Cardinality(returnedPaths) <= 1

\* the last two calls both found the binary
C3_Witness ==
    /\ callHistory = <<"cached", "cached">>
    /\ Len(attempts) = 1
    /\ attempts[1].cached
    /\ attempts[1].value.val \in returnedPaths

\* C4: the command never spawns the installer with an identifier that fails
\* the pattern.
C4_CommandValidatesId ==
    \A t \in AllTasks :
        (t.origin = "command" /\ Has(t.log, "spawn:installer")) => PatternTest(t.id.val)

\* C5: in extension.js, an Install click that finds the shared setup promise rejected ends with
\* an error shown to the user.
C5_PanelInstallFailureSurfaced ==
    \A t \in finished :
        (/\ variant = "extension.js"
         /\ t.origin = "panel"
         /\ t.promise \in 1..Len(attempts)
         /\ attempts[t.promise].pc = "rejected") => ShowsError(t.log)

\* C6: installExtension called with an empty or missing id or installer path
\* ends at once with one error notification: no subprocess, no progress, no
\* success notification with its reload action.
C6_PreconditionFailure ==
    \A t \in AllTasks :
        (Has(t.log, "installExtension") /\ (~Truthy(t.id) \/ ~Truthy(t.cmd))) =>
            /\ t.pc = "done"
            /\ Count(t.log, "showError:precondition") = 1
            /\ ~Has(t.log, "spawn:installer")
            /\ ~Has(t.log, "withProgress")
            /\ ~Has(t.log, "showInfo:success+ReloadWindow")
            /\ ~Has(t.log, "reloadWindow")
            /\ t.exit = NoExit

\* installExtension was called with an identifier but no installer path
C6_Witness ==
    \E t \in finished :
        /\ Has(t.log, "installExtension")
        /\ Truthy(t.id)
        /\ ~Truthy(t.cmd)
        /\ Has(t.log, "showError:precondition")

\* C7: once the installer has exited, the success notification with 'Reload
\* Window' was shown iff the exit code is zero, whatever it wrote to stderr; on
\* a non-zero exit the error notification is shown and no reload is offered.
C7_SuccessIffExitZero ==
    \A t \in AllTasks :
        t.exit # NoExit =>
            /\ Has(t.log, "showInfo:success+ReloadWindow") <=> t.exit.code = 0
            /\ Has(t.log, "showError:install") <=> t.exit.code # 0
            /\ t.exit.code # 0 => t.pc = "done" /\ ~Has(t.log, "reloadWindow")

\* the installer exited zero with diagnostic output and the reload was offered
C7_Witness ==
    \E t \in BagToSet(tasks) :
        /\ t.pc = "offered"
        /\ t.exit.code = 0
        /\ t.exit.stderr
        /\ Has(t.log, "showInfo:success+ReloadWindow")

\* C8: from a state where a run has resolved, no step of the same extension host
\* changes the shared promise or the provider's copy, starts or alters a run,
\* and every installer a command or panel invocation has running is that path.
C8_HandleStableOnceResolved ==
    [][ ((\E a \in Runs : a.pc = "resolved") /\ activated') =>
          /\ dependencySetupPromise' = dependencySetupPromise
          /\ dependencySetupPromise \in 1..Len(attempts)
          /\ installerCmdPromise' = installerCmdPromise
          /\ attempts' = attempts
          /\ attempts[dependencySetupPromise].pc = "resolved"
          /\ \A t \in BagToSet(tasks') :
                (t.origin \in {"command", "panel"} /\ t.pc = "installing") =>
                    t.cmd = attempts[dependencySetupPromise].value ]_vars

\* after setup resolved, a command and a panel invocation run the installer
C8_Witness ==
    /\ \E a \in Runs : a.pc = "resolved" /\ ~a.cached
    /\ \E t \in BagToSet(tasks) :
          t.origin = "command" /\ t.pc = "installing"
              /\ t.cmd = attempts[dependencySetupPromise].value
    /\ \E t \in BagToSet(tasks) :
          t.origin = "panel" /\ t.pc = "installing"
              /\ t.cmd = attempts[dependencySetupPromise].value

NoRuntime(a) == Has(a.log, "fail:python3") /\ Has(a.log, "fail:python")
StepFailed(a) == NoRuntime(a) \/ Has(a.log, "fail:venv") \/ Has(a.log, "fail:pip")

\* C9: with the binary absent, a run in which no runtime is found or the
\* environment or install step fails is rejected with the error shown, no
\* setup-complete message and no path; the environment is created only after a
\* runtime was found, the tool installed only after the environment was created,
\* and nothing is spawned after a failed step.
C9_SetupFailsInOrder ==
    \A a \in Runs :
        ~a.cached =>
            /\ StepFailed(a) =>
                  /\ a.pc = "rejected"
                  /\ Count(a.log, "showError:setup") = 1
                  /\ a.log[Len(a.log)] = "showError:setup"
                  /\ ~Has(a.log, "showInfo:setupComplete")
                  /\ a.value = Undefined
            /\ Before(a.log, "spawn:python3", "spawn:venv")
            /\ Before(a.log, "spawn:venv", "spawn:pip")
            /\ Has(a.log, "spawn:venv") => Has(a.log, "ok:python3") \/ Has(a.log, "ok:python")
            /\ Has(a.log, "spawn:pip") => Has(a.log, "ok:venv")
            /\ NoRuntime(a) => ~Has(a.log, "spawn:venv")
            /\ Has(a.log, "fail:venv") => ~Has(a.log, "spawn:pip")
            /\ a.pc = "resolved" => ~StepFailed(a) /\ Has(a.log, "ok:pip")

\* a run failed at its last step, the install of the tool
C9_Witness ==
    \E a \in Runs :
        ~a.cached /\ a.pc = "rejected" /\ Has(a.log, "fail:pip") /\ Has(a.log, "ok:venv")

\* C10: findPython returns python3 whenever its probe succeeds, without probing
\* python; python exactly when the python3 probe fails and the python probe
\* succeeds; and throws not-found exactly when both probes fail.
C10_FindPython ==
    \A a \in Runs :
        /\ Has(a.log, "ok:python3") => a.python = "python3" /\ ~Has(a.log, "spawn:python")
        /\ a.python = "python3" => Has(a.log, "ok:python3")
        /\ a.python = "python" <=> (Has(a.log, "fail:python3") /\ Has(a.log, "ok:python"))
        /\ Has(a.log, "throw:notFound") <=>
              (Has(a.log, "fail:python3") /\ Has(a.log, "fail:python"))
        /\ Has(a.log, "spawn:python") => Has(a.log, "fail:python3")

\* the fallback candidate was chosen
C10_Witness ==
    \E a \in Runs :
        a.python = "python" /\ Has(a.log, "fail:python3") /\ Has(a.log, "spawn:venv")

\* The text is a non-empty run of letters (either case), digits and hyphens,
\* one dot, and another such run.
WellFormedId(text) ==
    \E a, b \in {SubSeq(text, i, j) : i, j \in 1..Len(text)} :
        /\ a # <<>>
        /\ b # <<>>
        /\ text = a \o <<".">> \o b
        /\ \A c \in {a[k] : k \in 1..Len(a)} \cup {b[k] : k \in 1..Len(b)} :
               c \in Lower \cup Upper \cup Digits \cup {"-"}

\* C20: the input box accepts a text exactly when it is one or more letters
\* (case-insensitive), digits or hyphens, a dot, and one or more of the same:
\* "ms-python.python" is accepted, "ms-python" (no dot) and
\* "ms_python.python" (underscore) are refused.
C20_PatternAcceptsExactly ==
    boxVerdict # "unchecked" =>
        /\ (boxVerdict = "null") <=> WellFormedId(boxText)
        /\ boxText = MsPythonPython => boxVerdict = "null"
        /\ boxText \in {MsPython, MsUnderscore} => boxVerdict # "null"

C20_Witness ==
    /\ boxText = MsPythonPython
    /\ boxVerdict = "null"

\* C19: the window is reloaded only by an install handler whose installer
\* exited zero, after its success notification, and only when the user
\* selected 'Reload Window' there; a dismissed notification and a failed
\* install never reload.
C19_ReloadOnlyOnSelection ==
    \A t \in AllTasks :
        /\ Has(t.log, "reloadWindow") =>
              /\ t.exit.code = 0
              /\ Has(t.log, "selected:Reload Window")
              /\ Before(t.log, "showInfo:success+ReloadWindow", "selected:Reload Window")
              /\ Before(t.log, "selected:Reload Window", "reloadWindow")
              /\ Count(t.log, "reloadWindow") = 1
        /\ Has(t.log, "selected:undefined") => ~Has(t.log, "reloadWindow")
        /\ Has(t.log, "showError:install") => ~Has(t.log, "reloadWindow")

\* the user selected 'Reload Window' and the extension host restarted
C19_Witness ==
    /\ ~activated
    /\ \E t \in finished :
        /\ Has(t.log, "reloadWindow")
        /\ t.exit.code = 0

\* the panel takes the next message of the host in this step
Receives ==
    /\ toPanel # <<>>
    /\ Len(toPanel') = Len(toPanel) - 1

\* what a message of the host shows, by the message alone
KindShown(m) ==
    CASE m.type = "setLoading"  -> "loading"
      [] m.type = "showResults" -> IF m.value = <<>> THEN "empty" ELSE "results"
      [] m.type = "showError"   -> "error"
      [] m.type = "showInfo"    -> "info"

\* C11: with searches overlapping, whichever message of the host arrives
\* last determines what the panel shows: a received message replaces the
\* displayed state whatever is shown and whichever search was started last,
\* so the response of an earlier search, arriving after the response of a
\* later one, overwrites it.
C11_LastArrivalWins ==
    [][Receives /\ Head(toPanel).type \in MessageTypes =>
          /\ display'.kind = KindShown(Head(toPanel))
          /\ display'.for = Head(toPanel).for]_vars

\* every search has ended and the results shown are not those of the search
\* started last
C11_Witness ==
    /\ InFlightCount = 0
    /\ display.kind = "results"
    /\ latest # NoSearch
    /\ display.for # latest

\* the order of states the panel is described with
Follows(from, to) ==
    \/ from = "idle" /\ to = "loading"
    \/ from = "loading" /\ to \in {"results", "empty", "error"}
    \/ from \in {"results", "empty", "error"} /\ to = "loading"

\* C12 as stated: the displayed state changes only when the panel receives
\* one of the four message types, along idle -> loading -> results | empty |
\* error -> loading, and no user event changes it.
C12_OnlyMessagesChangeDisplay ==
    [][display' # display =>
          /\ Receives
          /\ Head(toPanel).type \in MessageTypes
          /\ Follows(display.kind, display'.kind)]_vars

\* C12: the displayed state changes only when the panel receives one of the
\* four message types, which then shows what its type names whatever was
\* shown before, or when the user submits an empty search, which shows
\* "Please enter a search term." with no message received; no other user
\* event changes it.
C12_MessagesOrEmptySearchChangeDisplay ==
    [][display' # display =>
          \/ /\ Receives
             /\ Head(toPanel).type \in MessageTypes
             /\ display'.kind = KindShown(Head(toPanel))
          \/ /\ UNCHANGED <<toPanel, toHost>>
             /\ display' = Shows("info", "Please enter a search term.", NoSearch)]_vars

\* the info text is shown after a search, with no message under way
C12_Witness ==
    /\ display.kind = "info"
    /\ latest # NoSearch
    /\ InFlightCount = 0

\* the events with which the handlers' logs record a message posted to the panel
PostEvents == {"post:setLoading", "post:showResults", "post:showError",
               "post:showInfo", "post:installationComplete"}
PostEventOf(type) == "post:" \o type

\* C13: every message the host posts to the panel has one of the four types
\* setLoading, showResults, showError, showInfo: those waiting in the channel,
\* and those the search calls and the install handlers have logged.
C13_FourMessageTypes ==
    /\ \A k \in 1..Len(toPanel) : toPanel[k].type \in MessageTypes
    /\ \A c \in BagToSet(searches) \cup searched : \A e \in PostEvents :
          Has(c.log, e) => \E type \in MessageTypes : e = PostEventOf(type)
    /\ \A t \in AllTasks : \A e \in PostEvents :
          Has(t.log, e) => \E type \in MessageTypes : e = PostEventOf(type)

\* the panel posts an install message for the k-th rendered item in this step
PostsInstall(k) ==
    /\ k \in 1..Len(display.items)
    /\ Len(toHost') = Len(toHost) + 1
    /\ toHost'[Len(toHost')] = InstallMsg(display.items[k].extensionId)

\* C14: a rendered item whose isInstalled is true offers no install action
\* (its button is disabled and has no click listener), and an install message
\* is posted only for a rendered item whose isInstalled is false.
C14_InstalledItemsNotInstallable ==
    [][/\ \A k \in 1..Len(display.items) :
             display.items[k].isInstalled =>
                 display.items[k].disabled /\ ~display.items[k].listener
       /\ (Len(toHost') = Len(toHost) + 1 /\ toHost'[Len(toHost')].type = "install") =>
             \E k \in 1..Len(display.items) :
                 PostsInstall(k) /\ ~display.items[k].isInstalled]_vars

\* the searchMarketplace calls under way or just completed
Calls == BagToSet(searches) \cup searched

\* C15: a searchMarketplace call with a non-empty query sends exactly one
\* HTTP request, for page 1 with page size 50 and the query as search text,
\* whether the request succeeds or fails; a failed request is not sent again.
C15_OneRequestPerSearch ==
    \A c \in Calls :
        c.query # <<>> =>
            /\ c.requests = 1
            /\ Count(c.log, "request") = 1
            /\ c.request.pageNumber = 1
            /\ c.request.pageSize = 50
            /\ c.request.value = c.query

\* a call has ended in its catch block, having sent one request
C15_Witness ==
    \E c \in searched :
        /\ c.pc = "done"
        /\ c.outcome \in {"status", "noResponse", "malformed"}
        /\ Has(c.log, "post:showError")
        /\ c.requests = 1

\* C16: when the user submits a search input that is empty once trimmed, the
\* panel shows "Please enter a search term." and posts no message to the
\* host.
C16_EmptySearchStaysLocal ==
    [][(entered'.defined /\ \A k \in 1..Len(entered'.val) : entered'.val[k] \in WhiteSpace) =>
          /\ display'.kind = "info"
          /\ display'.text = "Please enter a search term."
          /\ toHost' = toHost
          /\ UNCHANGED <<searches, toPanel>>]_vars

\* the user has submitted a blank input
C16_Witness ==
    /\ entered = Str(<<" ">>)
    /\ display.kind = "info"
    /\ toHost = <<>>

\* two texts differ at most in the case of their letters
SameIgnoringCase(a, b) ==
    /\ Len(a) = Len(b)
    /\ \A k \in 1..Len(a) :
          \/ a[k] = b[k]
          \/ \E i \in 1..Len(UpperSeq) : {a[k], b[k]} = {UpperSeq[i], LowerSeq[i]}

\* the showResults messages under way to the panel
ResultMessages == {k \in 1..Len(toPanel) : toPanel[k].type = "showResults"}

\* C17: an item of a showResults message has isInstalled true exactly when
\* its identifier, lower-cased, is among the lower-cased identifiers of the
\* installed extensions at mapping time: with "ms-python.python" installed,
\* the result "MS-Python.Python" is marked installed.
C17_IsInstalledIgnoresCase ==
    \A k \in ResultMessages : \A i \in 1..Len(toPanel[k].value) :
        LET item == toPanel[k].value[i] IN
        /\ item.isInstalled <=>
              \E j \in 1..Len(installedExtensions) :
                  SameIgnoringCase(installedExtensions[j], item.extensionId)
        /\ (includes(installedExtensions, MsPythonPython)
              /\ item.extensionId = <<"M","S","-","P","y","t","h","o","n",".",
                                       "P","y","t","h","o","n">>)
             => item.isInstalled

\* "MS-Python.Python" has been mapped with "ms-python.python" installed, and
\* "golang.go", not installed, next to it
C17_Witness ==
    /\ includes(installedExtensions, MsPythonPython)
    /\ \E k \in ResultMessages :
          /\ Len(toPanel[k].value) = 2
          /\ toPanel[k].value[1].extensionId = extensionIdOf(RawPython)
          /\ toPanel[k].value[1].isInstalled
          /\ toPanel[k].value[2].extensionId = extensionIdOf(RawGo)
          /\ ~toPanel[k].value[2].isInstalled

\* C18: the list a showResults message carries has the length of the
\* response's extension list and keeps its order: the i-th item is the
\* mapping of the i-th extension of the response.
C18_ResultsKeepLengthAndOrder ==
    \A c \in searched :
        c.outcome = "ok" =>
            /\ toPanel # <<>>
            /\ LET m == toPanel[Len(toPanel)] IN
               /\ m.type = "showResults"
               /\ Len(m.value) = Len(c.response)
               /\ \A i \in 1..Len(c.response) :
                     /\ m.value[i].extensionId =
                            c.response[i].publisher.publisherName \o <<".">>
                                \o c.response[i].extensionName
                     /\ m.value[i].displayName = c.response[i].displayName

\* a response listing two different extensions, one installed, has been mapped
C18_Witness ==
    \E c \in searched :
        /\ c.outcome = "ok"
        /\ c.response = <<RawGo, RawPython>>
        /\ includes(installedExtensions, MsPythonPython)
        /\ toPanel[Len(toPanel)].type = "showResults"
        /\ toPanel[Len(toPanel)].value[2].displayName = "Python"

\* the positions of the default-icon files in the first version entry
IconFiles(ext) ==
    IF ext.versions = <<>> \/ ~ext.versions[1].files.defined THEN {}
    ELSE {k \in 1..Len(ext.versions[1].files.list) :
            ext.versions[1].files.list[k].assetType
                = "Microsoft.VisualStudio.Services.Icons.Default"}

\* C21: the iconUrl of each result item is the source of the first file of
\* the first version entry whose asset type is the default-icon tag, and the
\* empty string when the first version entry is absent, has no files, or has
\* no such file.
C21_IconUrlFromFirstVersion ==
    \A c \in searched :
        c.outcome = "ok" =>
            /\ toPanel # <<>>
            /\ Len(toPanel[Len(toPanel)].value) = Len(c.response)
            /\ \A i \in 1..Len(c.response) :
                  LET item == toPanel[Len(toPanel)].value[i]
                      ext == c.response[i]
                  IN IF IconFiles(ext) = {}
                     THEN item.iconUrl = ""
                     ELSE \E k \in IconFiles(ext) :
                            /\ \A j \in IconFiles(ext) : k <= j
                            /\ item.iconUrl = ext.versions[1].files.list[k].source

\* a response with an extension that has two default-icon files after another
\* file, and one without any version entry, has been mapped
C21_Witness ==
    \E c \in searched :
        /\ c.outcome = "ok"
        /\ c.response = <<RawPython, RawToml>>
        /\ toPanel[Len(toPanel)].value[1].iconUrl = "python/icon.png"
        /\ toPanel[Len(toPanel)].value[2].iconUrl = ""

\* C22: in part_000, a command invocation that finds the most recent
\* ensureDependencies run failed, the run started at activation or a retry
\* started by an earlier invocation, starts a fresh run instead of awaiting
\* the rejected promise.
C22_RecoverableAfterEveryFailure ==
    \A t \in AllTasks :
        (variant = "part_000" /\ t.origin = "command" /\ t.lastFailed) =>
            Has(t.log, "ensureDependencies")

\* what a searchMarketplace call shows the user as an error: the notification
\* and the message the panel renders in its results container
SearchErrorSurfaces == {"showError:search", "post:showError"}
SurfaceCount(log) == Cardinality({k \in 1..Len(log) : log[k] \in SearchErrorSurfaces})

\* C23: a failing user action raises exactly one user-visible error surface,
\* a notification or an in-panel message and not both; here, a search whose
\* request failed has raised exactly one.
C23_OneErrorSurfacePerFailure ==
    \A c \in searched :
        c.outcome \in {"status", "noResponse", "malformed"} =>
            SurfaceCount(c.log) = 1

TerminalPosts == {"post:showResults", "post:showError"}
Terminals(log) == Cardinality({k \in 1..Len(log) : log[k] \in TerminalPosts})

\* a call has posted setLoading before anything else, and no terminal message
\* while its request is under way, exactly one once it has ended
LoadingThenOneTerminal(c) ==
    /\ c.log[1] = "post:setLoading"
    /\ Count(c.log, "post:setLoading") = 1
    /\ c.pc = "awaiting" => Terminals(c.log) = 0
    /\ c.pc = "done" =>
          /\ Terminals(c.log) = 1
          /\ c.log[Len(c.log)] \in TerminalPosts
          /\ Has(c.log, "post:showResults") <=> c.outcome = "ok"
          /\ toPanel # <<>>
          /\ toPanel[Len(toPanel)].for = c.query
          /\ toPanel[Len(toPanel)].type =
                (IF c.outcome = "ok" THEN "showResults" ELSE "showError")

\* C24: every searchMarketplace call with a non-empty query and a resolved
\* view posts setLoading first and no terminal message while its request is
\* under way; the step in which its request ends, with results, no response,
\* a non-2xx status or a malformed body, ends the call and posts exactly one
\* terminal message, showResults or showError and never both.
C24_LoadingThenExactlyOneTerminal ==
    [][/\ \A c \in Calls' : c.query # <<>> => LoadingThenOneTerminal(c)'
       /\ \A c \in BagToSet(searches) :
             CopiesIn(c, searches') < CopiesIn(c, searches) =>
                /\ Len(toPanel') = Len(toPanel) + 1
                /\ \E d \in searched' :
                      /\ d.query = c.query
                      /\ d.pc = "done"
                      /\ Terminals(d.log) = 1]_vars

\* a call whose response had no result list has ended with setLoading, its
\* one request, the notification and the one showError message
C24_Witness ==
    \E c \in searched :
        /\ c.outcome = "malformed"
        /\ c.log = <<"post:setLoading", "request", "showError:search", "post:showError">>
        /\ toPanel[Len(toPanel)].type = "showError"

NotFoundMessage ==
    "Marketplace API endpoint not found or changed. This extension may need an update."
BadRequestMessage ==
    "Invalid search request. The marketplace API might have changed its expected parameters."
ServerErrorMessage ==
    "Internal server error from Marketplace API. Please try again later."
NetworkErrorMessage ==
    "Network error during search. Check your internet connection."
GenericMessage ==
    "Search failed. Please check your internet connection or try a different search term."

\* the message the claim gives a failed call: by status bucket, where every
\* status from 500 up is a server error, or by the other two classes
ClassMessages(c) ==
    CASE c.outcome = "status" /\ c.status = 404 -> {NotFoundMessage}
      [] c.outcome = "status" /\ c.status = 400 -> {BadRequestMessage}
      [] c.outcome = "status" /\ c.status >= 500 -> {ServerErrorMessage}
      [] c.outcome = "status" ->
            {NotFoundMessage, BadRequestMessage, ServerErrorMessage}
      [] c.outcome = "noResponse" -> {NetworkErrorMessage}
      [] c.outcome = "malformed" -> {GenericMessage}

\* C25: the showError message of a failed search is the message of its
\* failure class: status 404, status 400 and server errors have their own
\* messages, no response has the network-error message, a malformed body the
\* generic message, and every non-2xx status has one of the three status
\* messages.
C25_MessageByFailureClass ==
    \A c \in searched :
        c.outcome \in {"status", "noResponse", "malformed"} =>
            /\ toPanel # <<>>
            /\ toPanel[Len(toPanel)].type = "showError"
            /\ toPanel[Len(toPanel)].value \in ClassMessages(c)

\* C26: an install request from the panel awaits the run started at
\* activation and starts none itself: while that run is under way the request
\* waits, it spawns the installer only once the run has resolved and then
\* with the path the run resolved to, and there is never a second run (as
\* long as the window is not reloaded, which starts the extension anew).
C26_PanelInstallAwaitsActivationSetup ==
    /\ variant # "part_000" => Len(attempts) = (IF activated THEN 1 ELSE 0)
    /\ \A t \in AllTasks :
          (t.origin = "panel" /\ activated) =>
             /\ t.promise = 1
             /\ ~Has(t.log, "ensureDependencies")
             /\ InFlight(attempts[1]) => (t.pc = "awaitSetup" /\ t.log = <<>>)
             /\ Has(t.log, "spawn:installer") =>
                   /\ attempts[1].pc = "resolved"
                   /\ t.cmd = attempts[1].value

\* an Install click made while setup was under way has, after the setup,
\* spawned the installer with the path the setup resolved to
C26_Witness ==
    \E t \in AllTasks :
        /\ activated
        /\ t.origin = "panel"
        /\ t.waited
        /\ Has(t.log, "spawn:installer")
        /\ ~attempts[1].cached
        /\ t.cmd = attempts[1].value

====
